---- MODULE Spec2Model ----
(***************************************************************************)
(* Credit ledger and payment reconciliation of the WhatsApp AI backend.    *)
(*                                                                         *)
(* The store (users, credit_transactions, payments, packages) and the      *)
(* payment gateway (orders, captured payments) are shared state.  Every    *)
(* HTTP request runs in a slot; each await of a handler is one atomic      *)
(* step, so requests interleave exactly at the store and gateway calls.    *)
(***************************************************************************)
EXTENDS Integers, Sequences, FiniteSets, TLC

\* ---------------------------------------------------------------- bounds
NumSlots == 2
MaxRequests == 3
MaxOrders == 1
MaxCaptures == 1

\* ------------------------------------------------------- program constants
StarterCredits == 3
DebitAmount == 1
NullRef == 0
PaisePerRupee == 100
DefaultLimit == 50

Slots == 1..NumSlots
Phones == {"+911", "+912"}

NoRow == [none |-> TRUE]
NoPhone == "-"
NoSecret == "undefined"
NoSig == <<>>
NoBody == [event |-> "-", id |-> 0, order_id |-> 0]
\* a raw body that is not JSON: JSON.parse throws on it
UnparsableBody == [event |-> "<not json>", id |-> 0, order_id |-> 0]

\* packages table: immutable reference data; a row's id is its index and
\* price is held in thousandths of a rupee (numeric column).
packages ==
  <<[name |-> "Starter", price |-> 100000, credits |-> 50],
    [name |-> "Pro", price |-> 199995, credits |-> 120]>>

PackageIdInputs == 1..(Len(packages) + 1)

\* positive amounts a caller of addCredits passes
AddAmounts == {1, 2}

\* ?limit= of GET /api/credits/history/:user_id as a digit string; the empty
\* string stands for no limit given.
LimitInputs == {<<>>, <<0>>, <<1>>, <<2>>}

\* the x-bot-secret header of a request that carries none
NoHeader == "<absent>"

\* x-bot-secret headers a client can send
HeaderInputs == {"bot_secret", "wrong_secret", NoHeader}

\* process.env as read by config/env.js: each Razorpay secret is optional.
Configs ==
  {[keySecret |-> k, webhookSecret |-> w, botSecret |-> "bot_secret"] :
     k \in {"key_secret", NoSecret}, w \in {"webhook_secret", NoSecret}}

\* process.env for the bot routes: BOT_SECRET is optional.
BotConfigs ==
  {[keySecret |-> "key_secret", webhookSecret |-> "webhook_secret",
    botSecret |-> b] : b \in {"bot_secret", NoSecret}}

VARIABLES users, credit_transactions, payments, orders, captures, config,
          req, started, deducted

store == <<users, credit_transactions, payments>>
gateway == <<orders, captures>>
vars == <<users, credit_transactions, payments, orders, captures, config,
          req, started, deducted>>

\* ------------------------------------------------------------ conversions
RECURSIVE NumToString(_)
\* Number.prototype.toString() of a non-negative integer: its decimal digits.
NumToString(n) == IF n < 10 THEN <<n>> ELSE Append(NumToString(n \div 10), n % 10)

ParseIntLastDigit(str) == IF Len(str) = 0 THEN -1 ELSE str[Len(str)]

RECURSIVE ParseInt(_)
\* parseInt of a digit string; the empty string gives NaN, modelled as -1.
ParseInt(str) ==
  IF Len(str) = 0 THEN -1
  ELSE IF Len(str) = 1 THEN str[1]
  ELSE 10 * ParseInt(SubSeq(str, 1, Len(str) - 1)) + str[Len(str)]

TruncateToPaise(price) == (price * PaisePerRupee) \div 1000

\* Math.round(price * 100), price in thousandths: round half up to paise.
RoundToPaise(price) == (price * PaisePerRupee + 500) \div 1000

\* ------------------------------------------------------------- signatures
\* crypto.createHmac('sha256', secret).update(msg).digest('hex'), as a keyed
\* injective tag: without the secret only tags under another key can be made.
Hmac(secret, msg) == <<secret, msg>>

SignatureString(orderId, paymentId) == <<orderId, "|", paymentId>>

TimingSafeEqual(a, b) == \A i \in 1..Len(a) : a[i] = b[i]

\* ------------------------------------------------------------ store access
\* users: sequence of rows, a row's id is its index; phone_number is unique.
UserIds == 1..Len(users)

FindUserByPhone(phone) ==
  IF \E id \in UserIds : users[id].phone_number = phone
  THEN LET id == CHOOSE id \in UserIds : users[id].phone_number = phone
       IN [id |-> id, phone_number |-> phone, credits |-> users[id].credits]
  ELSE NoRow

Transaction(user_id, action, credits, source, reference_id) ==
  [user_id |-> user_id, action |-> action, credits |-> credits,
   source |-> source, reference_id |-> reference_id]

\* ------------------------------------------------------------ request slots
\* A slot holds one request: the handler's locals that live across awaits,
\* the response once sent, how many store writes and gateway order fetches
\* the request has made and, for a deductCredit, how many other deductCredit
\* calls for the same phone number were in flight during it (rivals).  A
\* request that came in through the bot routes has bot set and carries its
\* x-bot-secret header.  A getCreditHistory request holds its user id, its
\* limit query, the limit passed to the service and the rows returned.
IdleReq ==
  [op |-> "idle", pc |-> "idle", phone |-> NoPhone, user |-> NoRow,
   package_id |-> 0, order_id |-> 0, payment_id |-> 0,
   signature |-> NoSig, body |-> NoBody, bot |-> FALSE, header |-> NoHeader,
   credits |-> 0, source |-> "-", ref |-> NullRef,
   code |-> 0, success |-> FALSE, remaining |-> 0,
   writes |-> 0, fetches |-> 0, rivals |-> 0,
   user_id |-> 0, query |-> <<>>, limit |-> 0, transactions |-> <<>>]

Free(s) == req[s].pc \in {"idle", "done"}

Respond(r, code, success, remaining) ==
  [r EXCEPT !.pc = "done", !.code = code, !.success = success,
            !.remaining = remaining]

\* An exception leaving a service call: the webhook's catch answers 200,
\* every other controller passes it to next(error), which answers 500.
ThrowToErrorHandler(r) == Respond(r, 500, FALSE, 0)

Throw(r) ==
  IF r.op = "webhook" THEN Respond(r, 200, FALSE, 0)
  ELSE Respond(r, 500, FALSE, 0)

\* ------------------------------------------------------- credit.service.js
InsufficientCreditsBelowZero(user) == user.credits < 0

\* if (user.credits <= 0)
InsufficientCredits(user) == user.credits <= 0

NewCreditsOffByOne(user) == user.credits - 2

NewCredits(user) == user.credits - DebitAmount

UpdateMatchesAlways(row) == TRUE

UpdateMatchesNonNegative(row) == row.credits >= 0

\* .gte('credits', 1) of the conditional update
UpdateMatches(row) == row.credits >= 1

\* What the caller of getOrCreateUser does with the returned user, up to its
\* next await.
AfterGetOrCreate(r, user) ==
  CASE r.op = "getOrCreateUser" ->
         Respond([r EXCEPT !.user = user], 200, TRUE, user.credits)
    [] r.op = "deductCredit" ->
         IF InsufficientCredits(user)
         THEN Respond([r EXCEPT !.user = user], 200, FALSE, user.credits)
         ELSE [r EXCEPT !.user = user, !.pc = "deduct_update"]
    [] OTHER -> [r EXCEPT !.user = user, !.pc = "add_update"]

\* What the caller of addCredits does with the updated user.
AfterAddCredits(r, updatedUser) ==
  Respond([r EXCEPT !.user = updatedUser], 200, TRUE, updatedUser.credits)

StartGetOrCreateUser(s) ==
  /\ Free(s) /\ started < MaxRequests
  /\ \E phone \in Phones :
       req' = [req EXCEPT ![s] = [IdleReq EXCEPT !.op = "getOrCreateUser",
                                   !.pc = "goc_find", !.phone = phone]]
  /\ started' = started + 1
  /\ UNCHANGED <<store, gateway, config, deducted>>

InFlightDeduct(t, phone) ==
  /\ req[t].op = "deductCredit" /\ req[t].pc \notin {"idle", "done"}
  /\ req[t].phone = phone

\* The slots once the request r in slot s has called deductCredit(r.phone).
CallDeductCredit(s, r) ==
  LET others == {t \in Slots \ {s} : InFlightDeduct(t, r.phone)}
  IN [t \in Slots |->
        IF t = s
        THEN [r EXCEPT !.pc = "goc_find", !.rivals = Cardinality(others)]
        ELSE IF t \in others
        THEN [req[t] EXCEPT !.rivals = @ + 1]
        ELSE req[t]]

StartDeductCredit(s) ==
  /\ Free(s) /\ started < MaxRequests
  /\ \E phone \in Phones :
       req' = CallDeductCredit(s, [IdleReq EXCEPT !.op = "deductCredit",
                                                  !.phone = phone])
  /\ started' = started + 1
  /\ UNCHANGED <<store, gateway, config, deducted>>

\* A caller of addCredits(phoneNumber, credits, source, referenceId), as the
\* payment controller is after its checks.
StartAddCredits(s) ==
  /\ Free(s) /\ started < MaxRequests
  /\ \E phone \in Phones, credits \in AddAmounts :
       req' = [req EXCEPT ![s] = [IdleReq EXCEPT !.op = "addCredits",
                                   !.pc = "goc_find", !.phone = phone,
                                   !.credits = credits, !.source = "payment",
                                   !.ref = 1]]
  /\ started' = started + 1
  /\ UNCHANGED <<store, gateway, config, deducted>>

UserFoundNever(existingUser) == FALSE

\* existingUser && !findError
UserFound(existingUser) == existingUser # NoRow

GocFind(s) ==
  /\ req[s].pc = "goc_find"
  /\ LET existingUser == FindUserByPhone(req[s].phone)
     IN req' = [req EXCEPT ![s] =
                  IF UserFound(existingUser)
                  THEN AfterGetOrCreate(req[s], existingUser)
                  ELSE [req[s] EXCEPT !.pc = "goc_insert"]]
  /\ UNCHANGED <<store, gateway, config, started, deducted>>

PhoneTakenNever(phone) == FALSE

\* unique(phone_number) of the users table: an insert of a taken number fails
PhoneTaken(phone) == \E id \in UserIds : users[id].phone_number = phone

GocInsert(s) ==
  /\ req[s].pc = "goc_insert"
  /\ IF PhoneTaken(req[s].phone)
     THEN \* unique(phone_number) rejects the insert: createError
          /\ req' = [req EXCEPT ![s] = Throw(req[s])]
          /\ UNCHANGED users
     ELSE /\ users' = Append(users, [phone_number |-> req[s].phone,
                                     credits |-> StarterCredits])
          /\ req' = [req EXCEPT ![s] =
                       [req[s] EXCEPT !.pc = "goc_log",
                          !.writes = @ + 1,
                          !.user = [id |-> Len(users) + 1,
                                    phone_number |-> req[s].phone,
                                    credits |-> StarterCredits]]]
  /\ UNCHANGED <<credit_transactions, payments, gateway, config, started, deducted>>

StarterTransactionAsPayment(user_id) ==
  Transaction(user_id, "credit", StarterCredits, "payment", NullRef)

\* the log row of the free credits a new user gets from the system
StarterTransaction(user_id) ==
  Transaction(user_id, "credit", StarterCredits, "system", NullRef)

GocLog(s) ==
  /\ req[s].pc = "goc_log"
  /\ credit_transactions' = Append(credit_transactions,
                                   StarterTransaction(req[s].user.id))
  /\ req' = [req EXCEPT ![s] =
               AfterGetOrCreate([req[s] EXCEPT !.writes = @ + 1], req[s].user)]
  /\ UNCHANGED <<users, payments, gateway, config, started, deducted>>

DeductUpdate(s) ==
  /\ req[s].pc = "deduct_update"
  /\ LET user == req[s].user
         newCredits == NewCredits(user)
     IN IF UpdateMatches(users[user.id])
        THEN /\ users' = [users EXCEPT ![user.id].credits = newCredits]
             /\ req' = [req EXCEPT ![s] =
                          [req[s] EXCEPT !.writes = @ + 1,
                             !.remaining = newCredits,
                             !.pc = IF newCredits < 0 THEN "deduct_refetch"
                                    ELSE "deduct_log"]]
        ELSE /\ UNCHANGED users
             /\ req' = [req EXCEPT ![s].pc = "deduct_refetch"]
  /\ UNCHANGED <<credit_transactions, payments, gateway, config, started, deducted>>

DeductRefetch(s) ==
  /\ req[s].pc = "deduct_refetch"
  /\ req' = [req EXCEPT ![s] =
               Respond(req[s], 200, FALSE, users[req[s].user.id].credits)]
  /\ UNCHANGED <<store, gateway, config, started, deducted>>

DebitTransactionAsPayment(user_id) ==
  Transaction(user_id, "debit", DebitAmount, "payment", NullRef)

\* the log row of one credit spent on an image generation
DebitTransaction(user_id) ==
  Transaction(user_id, "debit", DebitAmount, "image_generation", NullRef)

DeductLog(s) ==
  /\ req[s].pc = "deduct_log"
  /\ credit_transactions' = Append(credit_transactions,
                                   DebitTransaction(req[s].user.id))
  /\ req' = [req EXCEPT ![s] =
               Respond([req[s] EXCEPT !.writes = @ + 1], 200, TRUE, req[s].remaining)]
  /\ deducted' = [deducted EXCEPT ![req[s].phone] = @ + 1]
  /\ UNCHANGED <<users, payments, gateway, config, started>>

AddUpdate(s) ==
  /\ req[s].pc = "add_update"
  /\ LET user == req[s].user
         newCredits == user.credits + req[s].credits
     IN /\ users' = [users EXCEPT ![user.id].credits = newCredits]
        /\ req' = [req EXCEPT ![s] =
                     [req[s] EXCEPT !.pc = "add_log", !.writes = @ + 1,
                                    !.user = [user EXCEPT !.credits = newCredits]]]
  /\ UNCHANGED <<credit_transactions, payments, gateway, config, started, deducted>>

AddLog(s) ==
  /\ req[s].pc = "add_log"
  /\ credit_transactions' = Append(credit_transactions,
       Transaction(req[s].user.id, "credit", req[s].credits, req[s].source,
                   req[s].ref))
  /\ req' = [req EXCEPT ![s] =
               AfterAddCredits([req[s] EXCEPT !.writes = @ + 1], req[s].user)]
  /\ UNCHANGED <<users, payments, gateway, config, started, deducted>>

\* ------------------------------------------- bot routes behind authenticateBot
AuthenticateBotAnyHeader(header) ==
  config.botSecret = NoSecret \/ header # NoHeader

\* TRUE when the middleware calls next(), FALSE when it answers 401.
AuthenticateBot(header) ==
  IF config.botSecret = NoSecret THEN TRUE \* not configured: skipped
  ELSE IF header = NoHeader THEN FALSE
  ELSE IF header # config.botSecret THEN FALSE
  ELSE TRUE

\* GET /api/bot/credits/:phone_number
BotGetCredits(s) ==
  /\ Free(s) /\ started < MaxRequests
  /\ \E phone \in Phones, header \in HeaderInputs :
       LET r == [IdleReq EXCEPT !.op = "getOrCreateUser", !.phone = phone,
                                !.bot = TRUE, !.header = header]
       IN req' = [req EXCEPT ![s] =
                    IF AuthenticateBot(header) THEN [r EXCEPT !.pc = "goc_find"]
                    ELSE Respond(r, 401, FALSE, 0)]
  /\ started' = started + 1
  /\ UNCHANGED <<store, gateway, config, deducted>>

\* POST /api/bot/deduct
BotDeductCredits(s) ==
  /\ Free(s) /\ started < MaxRequests
  /\ \E phone \in Phones, header \in HeaderInputs :
       LET r == [IdleReq EXCEPT !.op = "deductCredit", !.phone = phone,
                                !.bot = TRUE, !.header = header]
       IN req' = IF AuthenticateBot(header) THEN CallDeductCredit(s, r)
                 ELSE [req EXCEPT ![s] = Respond(r, 401, FALSE, 0)]
  /\ started' = started + 1
  /\ UNCHANGED <<store, gateway, config, deducted>>

\* ------------------------------------------------------- credit history
\* A credit_transactions row as selected: created_at increases with the
\* order of insertion, so the row's index stands for it.
HistoryRow(i) ==
  [created_at |-> i,
   user_id |-> credit_transactions[i].user_id,
   action |-> credit_transactions[i].action,
   credits |-> credit_transactions[i].credits,
   source |-> credit_transactions[i].source,
   reference_id |-> credit_transactions[i].reference_id]

RECURSIVE OrderDescending(_)
\* .order('created_at', { ascending: false })
OrderDescending(S) ==
  IF S = {} THEN <<>>
  ELSE LET newest == CHOOSE x \in S : \A y \in S : y <= x
       IN <<newest>> \o OrderDescending(S \ {newest})

LimitIgnored(seq, n) == seq

\* .limit(limit)
Limit(seq, n) == SubSeq(seq, 1, IF Len(seq) < n THEN Len(seq) ELSE n)

GetCreditHistory(userId, limit) ==
  LET ids == Limit(OrderDescending({i \in 1..Len(credit_transactions) :
                                      credit_transactions[i].user_id = userId}),
                   limit)
  IN [k \in 1..Len(ids) |-> HistoryRow(ids[k])]

\* parseInt(req.query.limit) || 50: NaN and 0 give the default
EffectiveLimit(query) ==
  LET n == ParseInt(query) IN IF n = -1 \/ n = 0 THEN DefaultLimit ELSE n

\* GET /api/credits/history/:user_id?limit=N
StartGetCreditHistory(s) ==
  /\ Free(s) /\ started < MaxRequests
  /\ \E user_id \in 1..(Cardinality(Phones) + 1), query \in LimitInputs :
       req' = [req EXCEPT ![s] =
                 [IdleReq EXCEPT !.op = "getCreditHistory", !.pc = "hist_user",
                    !.user_id = user_id, !.query = query,
                    !.limit = EffectiveLimit(query)]]
  /\ started' = started + 1
  /\ UNCHANGED <<store, gateway, config, deducted>>

HistUser(s) ==
  /\ req[s].pc = "hist_user"
  /\ req' = [req EXCEPT ![s] =
               IF req[s].user_id \in UserIds
               THEN [req[s] EXCEPT !.pc = "hist_query"]
               ELSE Respond(req[s], 404, FALSE, 0)]
  /\ UNCHANGED <<store, gateway, config, started, deducted>>

HistQuery(s) ==
  /\ req[s].pc = "hist_query"
  /\ LET transactions == GetCreditHistory(req[s].user_id, req[s].limit)
     IN req' = [req EXCEPT ![s] =
                  Respond([req[s] EXCEPT !.transactions = transactions],
                          200, TRUE, Len(transactions))]
  /\ UNCHANGED <<store, gateway, config, started, deducted>>

\* ------------------------------------------------------ payment.service.js
VerifyPaymentLengthOnly(orderId, paymentId, signature) ==
  /\ config.keySecret # NoSecret
  /\ signature # NoSig
  /\ Len(Hmac(config.keySecret, SignatureString(orderId, paymentId))) = Len(signature)

VerifyPayment(orderId, paymentId, signature) ==
  LET secret == config.keySecret
      expectedSignature == Hmac(secret, SignatureString(orderId, paymentId))
  IN IF secret = NoSecret THEN FALSE
     ELSE IF signature = NoSig \/ Len(expectedSignature) # Len(signature) THEN FALSE
     ELSE TimingSafeEqual(expectedSignature, signature)

VerifyWebhookAnySigned(rawBody, signature) ==
  config.webhookSecret # NoSecret /\ signature # NoSig

VerifyWebhook(rawBody, signature) ==
  LET secret == config.webhookSecret
      expectedSignature == Hmac(secret, rawBody)
  IN IF secret = NoSecret THEN FALSE
     ELSE IF signature = NoSig \/ Len(expectedSignature) # Len(signature) THEN FALSE
     ELSE TimingSafeEqual(expectedSignature, signature)

\* The Razorpay client exists only when the key secret is configured.
RazorpayClient == config.keySecret # NoSecret

\* ----------------------------------------------------------- the gateway
\* A customer pays an order: the gateway captures a payment for it, hands
\* the client the payment signature and may deliver webhook events.
Capture ==
  /\ Len(captures) < MaxCaptures
  /\ \E o \in 1..Len(orders) :
       captures' = Append(captures, [order_id |-> o])
  /\ UNCHANGED <<store, orders, config, req, started, deducted>>

\* Signatures a client can present: those the gateway issued for captured
\* payments, a tag made without the secret (same length), a truncated one.
SignatureInputs ==
  {Hmac("key_secret", SignatureString(captures[p].order_id, p)) :
     p \in 1..Len(captures)}
  \cup {Hmac("forged", SignatureString(o, p)) : o \in 1..MaxOrders, p \in 1..MaxCaptures}
  \cup {<<"forged">>}

\* Events the gateway delivers, signed with the webhook secret.
GatewayEvents ==
  {[event |-> e, id |-> p, order_id |-> captures[p].order_id] :
     e \in {"payment.captured", "payment.authorized"}, p \in 1..Len(captures)}

WebhookInputs ==
  {[body |-> b, signature |-> Hmac("webhook_secret", b)] :
     b \in GatewayEvents \cup {UnparsableBody}}
  \cup {[body |-> [event |-> "payment.captured", id |-> 1, order_id |-> 1],
         signature |-> sig] :
          sig \in {Hmac("forged", [event |-> "payment.captured", id |-> 1,
                                   order_id |-> 1]),
                   <<"forged">>, NoSig}}

\* --------------------------------------------------- payment controller
StartCreateOrder(s) ==
  /\ Free(s) /\ started < MaxRequests
  /\ \E package_id \in PackageIdInputs, phone \in Phones :
       req' = [req EXCEPT ![s] = [IdleReq EXCEPT !.op = "createOrder",
                                   !.pc = "co_package", !.phone = phone,
                                   !.package_id = package_id]]
  /\ started' = started + 1
  /\ UNCHANGED <<store, gateway, config, deducted>>

CoPackageCreatingUser(s) ==
  /\ req[s].pc = "co_package"
  /\ req' = [req EXCEPT ![s] =
               IF req[s].package_id \in DOMAIN packages
               THEN [req[s] EXCEPT !.pc = "goc_find"]
               ELSE Respond(req[s], 404, FALSE, 0)]
  /\ UNCHANGED <<store, gateway, config, started, deducted>>

CoPackage(s) ==
  /\ req[s].pc = "co_package"
  /\ req' = [req EXCEPT ![s] =
               IF req[s].package_id \in DOMAIN packages
               THEN [req[s] EXCEPT !.pc = "co_gateway"]
               ELSE Respond(req[s], 404, FALSE, 0)]
  /\ UNCHANGED <<store, gateway, config, started, deducted>>

CoGateway(s) ==
  /\ req[s].pc = "co_gateway"
  /\ LET packageData == packages[req[s].package_id]
         amount == RoundToPaise(packageData.price)
     IN \/ /\ RazorpayClient
           /\ Len(orders) < MaxOrders
           /\ orders' = Append(orders,
                [amount |-> amount,
                 notes |-> [package_id |-> NumToString(req[s].package_id),
                            phone_number |-> req[s].phone,
                            credits |-> NumToString(packageData.credits)]])
           /\ req' = [req EXCEPT ![s] =
                        Respond([req[s] EXCEPT !.order_id = Len(orders) + 1],
                                200, TRUE, amount)]
        \/ \* no client configured, or the gateway call fails
           /\ req' = [req EXCEPT ![s] = Throw(req[s])]
           /\ UNCHANGED orders
  /\ UNCHANGED <<store, captures, config, started, deducted>>

\* Bodies of POST /api/payments/verify with all five fields present.
CompleteBodies ==
  {[order_id |-> o, payment_id |-> p, signature |-> sig, phone |-> ph,
    package_id |-> pk] :
     o \in 1..MaxOrders, p \in 1..MaxCaptures, sig \in SignatureInputs,
     ph \in Phones, pk \in PackageIdInputs}

\* Bodies with exactly one field absent (an absent id is 0, an absent
\* signature NoSig, an absent phone number NoPhone), the other four as in a
\* request for the first order, payment, phone number and package.
IncompleteBodies ==
  UNION {{[b EXCEPT !.order_id = 0], [b EXCEPT !.payment_id = 0],
          [b EXCEPT !.signature = NoSig], [b EXCEPT !.phone = NoPhone],
          [b EXCEPT !.package_id = 0]} :
           b \in {c \in CompleteBodies :
                    /\ c.order_id = 1 /\ c.payment_id = 1
                    /\ c.phone = "+911" /\ c.package_id = 1}}

MissingFieldsIgnoringPhone(body) ==
  \/ body.order_id = 0 \/ body.payment_id = 0 \/ body.signature = NoSig
  \/ body.package_id = 0

\* !razorpay_order_id || !razorpay_payment_id || !razorpay_signature ||
\* !phone_number || !package_id
MissingFields(body) ==
  \/ body.order_id = 0 \/ body.payment_id = 0 \/ body.signature = NoSig
  \/ body.phone = NoPhone \/ body.package_id = 0

StartVerifyPayment(s) ==
  /\ Free(s) /\ started < MaxRequests
  /\ \E body \in CompleteBodies \cup IncompleteBodies :
       LET r == [IdleReq EXCEPT !.op = "verifyPayment", !.phone = body.phone,
                   !.package_id = body.package_id, !.order_id = body.order_id,
                   !.payment_id = body.payment_id,
                   !.signature = body.signature]
       IN req' = [req EXCEPT ![s] =
                    IF MissingFields(body) THEN Respond(r, 400, FALSE, 0)
                    ELSE IF VerifyPayment(body.order_id, body.payment_id,
                                          body.signature)
                    THEN [r EXCEPT !.pc = "vp_user"]
                    ELSE Respond(r, 400, FALSE, 0)]
  /\ started' = started + 1
  /\ UNCHANGED <<store, gateway, config, deducted>>

UserMissingNever(userData) == FALSE

\* userError || !userData of the controller's own lookup by phone number
UserMissing(userData) == userData = NoRow

VpUser(s) ==
  /\ req[s].pc = "vp_user"
  /\ LET userData == FindUserByPhone(req[s].phone)
     IN req' = [req EXCEPT ![s] =
                  IF UserMissing(userData) THEN Respond(req[s], 404, FALSE, 0)
                  ELSE [req[s] EXCEPT !.pc = "vp_package", !.user = userData]]
  /\ UNCHANGED <<store, gateway, config, started, deducted>>

VpPackage(s) ==
  /\ req[s].pc = "vp_package"
  /\ req' = [req EXCEPT ![s] =
               IF req[s].package_id \in DOMAIN packages
               THEN [req[s] EXCEPT !.pc = "vp_payment"]
               ELSE Respond(req[s], 404, FALSE, 0)]
  /\ UNCHANGED <<store, gateway, config, started, deducted>>

AfterPaymentInsertAborting(r, dbPaymentError) ==
  IF dbPaymentError THEN Throw(r)
  ELSE [r EXCEPT !.pc = "goc_find",
                 !.credits = packages[r.package_id].credits,
                 !.source = "payment", !.ref = r.payment_id]

\* The controller after its payments insert: an error is only logged, and
\* addCredits(phone_number, packageData.credits, 'payment', payment id) is
\* called either way.
AfterPaymentInsert(r, dbPaymentError) ==
  [r EXCEPT !.pc = "goc_find",
            !.credits = packages[r.package_id].credits,
            !.source = "payment", !.ref = r.payment_id]

VpPayment(s) ==
  /\ req[s].pc = "vp_payment"
  /\ LET packageData == packages[req[s].package_id]
     IN \/ /\ payments' = Append(payments,
                [user_id |-> req[s].user.id, amount |-> packageData.price,
                 gateway_order_id |-> req[s].order_id,
                 gateway_payment_id |-> req[s].payment_id,
                 status |-> "success", package_id |-> req[s].package_id])
           /\ req' = [req EXCEPT ![s] =
                        AfterPaymentInsert([req[s] EXCEPT !.writes = @ + 1], FALSE)]
        \/ \* the store refuses the insert: dbPaymentError
           /\ UNCHANGED payments
           /\ req' = [req EXCEPT ![s] = AfterPaymentInsert(req[s], TRUE)]
  /\ UNCHANGED <<users, credit_transactions, gateway, config, started, deducted>>

StartWebhook(s) ==
  /\ Free(s) /\ started < MaxRequests
  /\ \E in \in WebhookInputs :
       LET r == [IdleReq EXCEPT !.op = "webhook", !.body = in.body,
                                !.signature = in.signature]
       IN req' = [req EXCEPT ![s] =
                    IF in.signature = NoSig THEN Respond(r, 400, FALSE, 0)
                    ELSE IF ~VerifyWebhook(in.body, in.signature)
                      THEN Respond(r, 400, FALSE, 0)
                    ELSE IF in.body = UnparsableBody
                      THEN Throw(r) \* JSON.parse throws, caught
                    ELSE IF in.body.event # "payment.captured"
                      THEN Respond(r, 200, TRUE, 0)
                    ELSE IF ~RazorpayClient
                      THEN Throw(r) \* razorpay is null: TypeError, caught
                    ELSE [r EXCEPT !.pc = "wh_fetch",
                                   !.order_id = in.body.order_id,
                                   !.payment_id = in.body.id]]
  /\ started' = started + 1
  /\ UNCHANGED <<store, gateway, config, deducted>>

WhFetch(s) ==
  /\ req[s].pc = "wh_fetch"
  /\ \/ /\ req[s].order_id \in DOMAIN orders
        /\ LET notes == orders[req[s].order_id].notes
           IN req' = [req EXCEPT ![s] =
                        [req[s] EXCEPT !.pc = "goc_find", !.fetches = @ + 1,
                           !.phone = notes.phone_number,
                           !.credits = ParseInt(notes.credits),
                           !.source = "webhook_payment",
                           !.ref = req[s].payment_id]]
     \/ \* the fetch fails: the exception is caught and answered 200
        req' = [req EXCEPT ![s] = Throw([req[s] EXCEPT !.fetches = @ + 1])]
  /\ UNCHANGED <<store, gateway, config, started, deducted>>

\* ------------------------------------------------------------ specification
\* The store outlives the server: it starts empty, or as one first debit of
\* "+911" (created with the starter credits) has left it.
StoresAtStart ==
  {[users |-> <<>>, credit_transactions |-> <<>>, deducted |-> 0],
   [users |-> <<[phone_number |-> "+911",
                 credits |-> StarterCredits - DebitAmount]>>,
    credit_transactions |->
      <<Transaction(1, "credit", StarterCredits, "system", NullRef),
        Transaction(1, "debit", DebitAmount, "image_generation", NullRef)>>,
    deducted |-> 1]}

InitWith(configs) ==
  /\ \E st \in StoresAtStart :
       /\ users = st.users
       /\ credit_transactions = st.credit_transactions
       /\ deducted = [p \in Phones |-> IF p = "+911" THEN st.deducted ELSE 0]
  /\ payments = <<>>
  /\ orders = <<>>
  /\ captures = <<>>
  /\ config \in configs
  /\ req = [s \in Slots |-> IdleReq]
  /\ started = 0

Init == InitWith(Configs)

Step(s) ==
  \/ StartGetOrCreateUser(s)
  \/ StartDeductCredit(s)
  \/ GocFind(s)
  \/ GocInsert(s)
  \/ GocLog(s)
  \/ DeductUpdate(s)
  \/ DeductRefetch(s)
  \/ DeductLog(s)
  \/ AddUpdate(s)
  \/ AddLog(s)
  \/ StartCreateOrder(s)
  \/ CoPackage(s)
  \/ CoGateway(s)
  \/ StartVerifyPayment(s)
  \/ VpUser(s)
  \/ VpPackage(s)
  \/ VpPayment(s)
  \/ StartWebhook(s)
  \/ WhFetch(s)

Next == Capture \/ \E s \in Slots : Step(s)

Spec == Init /\ [][Next]_vars

\* The ledger service alone: its three operations called concurrently.
InitLedger == Init /\ config = [keySecret |-> "key_secret",
                                 webhookSecret |-> "webhook_secret",
                                 botSecret |-> "bot_secret"]

StepLedger(s) ==
  \/ StartGetOrCreateUser(s)
  \/ StartDeductCredit(s)
  \/ StartAddCredits(s)
  \/ GocFind(s)
  \/ GocInsert(s)
  \/ GocLog(s)
  \/ DeductUpdate(s)
  \/ DeductRefetch(s)
  \/ DeductLog(s)
  \/ AddUpdate(s)
  \/ AddLog(s)

NextLedger == \E s \in Slots : StepLedger(s)

SpecLedger == InitLedger /\ [][NextLedger]_vars

\* The ledger service with the credit history endpoint reading its log.
StepHistory(s) ==
  \/ StartGetCreditHistory(s)
  \/ HistUser(s)
  \/ HistQuery(s)
  \/ StepLedger(s)

NextHistory == \E s \in Slots : StepHistory(s)

SpecHistory == InitLedger /\ [][NextHistory]_vars

\* The bot routes: credit check and deduct requests behind authenticateBot.
InitBot == InitWith(BotConfigs)

StepBot(s) ==
  \/ BotGetCredits(s)
  \/ BotDeductCredits(s)
  \/ GocFind(s)
  \/ GocInsert(s)
  \/ GocLog(s)
  \/ DeductUpdate(s)
  \/ DeductRefetch(s)
  \/ DeductLog(s)

NextBot == \E s \in Slots : StepBot(s)

SpecBot == InitBot /\ [][NextBot]_vars

\* ------------------------------------------------------------------ claims
TxIds == 1..Len(credit_transactions)

\* credits of the user's 'credit' transactions minus those of its 'debit' ones
LedgerSum(id) ==
  LET f[i \in 0..Len(credit_transactions)] ==
        IF i = 0 THEN 0
        ELSE LET t == credit_transactions[i]
             IN f[i - 1] + (IF t.user_id # id THEN 0
                            ELSE IF t.action = "credit" THEN t.credits
                            ELSE 0 - t.credits)
  IN f[Len(credit_transactions)]

\* the request in slot s has written a balance and not yet logged it
BetweenWriteAndLog(s, id) ==
  /\ req[s].pc \in {"goc_log", "deduct_log", "add_log"}
  /\ req[s].user.id = id

\* no addCredits has written the user's balance
NoCreditsAdded(id) ==
  /\ \A i \in TxIds :
       credit_transactions[i].user_id = id /\ credit_transactions[i].action = "credit"
         => credit_transactions[i].source = "system"
  /\ \A s \in Slots : ~(req[s].pc = "add_log" /\ req[s].user.id = id)

\* the deductCredit call in slot s has returned and had read balance b
DeductReturned(s, b) ==
  /\ req[s].op = "deductCredit" /\ req[s].pc = "done" /\ req[s].code = 200
  /\ req[s].user.credits = b

CreditTxs(source, ref) ==
  {i \in TxIds : /\ credit_transactions[i].action = "credit"
                 /\ credit_transactions[i].source = source
                 /\ credit_transactions[i].reference_id = ref}

\* the signature is the gateway's HMAC of orderId|paymentId under the key secret
GenuinePaymentSignature(r) ==
  /\ config.keySecret # NoSecret
  /\ r.signature = Hmac(config.keySecret, SignatureString(r.order_id, r.payment_id))

\* the signature is the HMAC of the raw body under the webhook secret
GenuineWebhookSignature(r) ==
  /\ config.webhookSecret # NoSecret
  /\ r.signature = Hmac(config.webhookSecret, r.body)

\* C1: in every reachable state every user's stored credits balance is >= 0.
C1_NonNegativeBalance == \A id \in UserIds : users[id].credits >= 0

\* C1 witness: a debit brought a balance to 0 while a second deductCredit held
\* a stale read of it, and the store refused that second conditional update.
C1_Witness ==
  \E s, t \in Slots :
    /\ s # t
    /\ req[s].pc = "deduct_refetch"
    /\ req[t].op = "deductCredit" /\ req[t].pc = "done" /\ req[t].success
    /\ req[t].user.id = req[s].user.id
    /\ users[req[s].user.id].credits = 0

\* C2: for a user to whom no credits were added, the deductCredit calls that
\* returned success:true never outnumber the balance N the user started
\* with (the starter credits).
C2_NoOverspend ==
  \A id \in UserIds :
    NoCreditsAdded(id) => deducted[users[id].phone_number] <= StarterCredits

\* C3: when exactly two deductCredit calls for a user run concurrently (each
\* had the other as its only rival), both read balance 1 and no credits were
\* added to the user, exactly one of them returns success:true and both
\* return remainingCredits 0.
C3_ExactlyOneWinner ==
  \A s, t \in Slots :
    ( /\ s # t
      /\ DeductReturned(s, 1) /\ DeductReturned(t, 1)
      /\ req[s].user.id = req[t].user.id
      /\ req[s].rivals = 1 /\ req[t].rivals = 1
      /\ NoCreditsAdded(req[s].user.id) )
    => /\ req[s].success # req[t].success
       /\ req[s].remaining = 0 /\ req[t].remaining = 0

\* C3 witness: two such deductCredit calls have returned, one having won.
C3_Witness ==
  \E s, t \in Slots :
    /\ s # t
    /\ DeductReturned(s, 1) /\ DeductReturned(t, 1)
    /\ req[s].user.id = req[t].user.id
    /\ req[s].rivals = 1 /\ req[t].rivals = 1
    /\ NoCreditsAdded(req[s].user.id)
    /\ req[s].success /\ ~req[t].success

\* C4: every successful conditional update of deductCredit leaves the stored
\* balance exactly 1 below the balance the store held when it was applied.
C4_DecrementByOne ==
  [][\A s \in Slots :
       (req[s].pc = "deduct_update" /\ req'[s].pc = "deduct_log")
         => users'[req[s].user.id].credits = users[req[s].user.id].credits - 1]_vars

\* C5: for every user the stored balance equals the credits of its 'credit'
\* transactions minus those of its 'debit' transactions.  Stated here for the
\* states most favourable to the claim, those in which no request stands
\* between a balance write and the log record of it; the claim's "at all
\* times" covers these states and more.
C5_LedgerConsistency ==
  \A id \in UserIds :
    (\A s \in Slots : ~BetweenWriteAndLog(s, id))
      => users[id].credits = LedgerSum(id)

\* C6: a gateway payment for which both verifyPayment and the webhook fired is
\* credited once: the log never holds a 'payment' credit and a
\* 'webhook_payment' credit for the same payment id.
C6_CreditedOncePerPayment ==
  \A p \in 1..Len(captures) :
    ~(CreditTxs("payment", p) # {} /\ CreditTxs("webhook_payment", p) # {})

\* C7: redelivery of a payment.captured event credits the payment at most
\* once: at most one 'webhook_payment' credit per payment id.
C7_WebhookReplayCreditsOnce ==
  \A p \in 1..Len(captures) : Cardinality(CreditTxs("webhook_payment", p)) <= 1

\* C8: the same valid verifyPayment request submitted again records the
\* gateway payment id and credits the user at most once: neither the payments
\* table nor the 'payment' credits of the log hold the same row twice.
C8_VerifyReplayCreditsOnce ==
  \A p \in 1..Len(captures) :
    /\ \A i, j \in 1..Len(payments) :
         (i # j /\ payments[i].gateway_payment_id = p) => payments[i] # payments[j]
    /\ \A i, j \in CreditTxs("payment", p) :
         i # j => credit_transactions[i] # credit_transactions[j]

\* C9: a verifyPayment request whose signature is not the HMAC of
\* orderId|paymentId under the key secret is answered 400 and makes no store
\* write.
C9_SignatureRejection ==
  \A s \in Slots :
    (req[s].op = "verifyPayment" /\ ~GenuinePaymentSignature(req[s]))
      => req[s].pc = "done" /\ req[s].code = 400 /\ req[s].writes = 0

\* C9 witness: a captured payment exists and a verifyPayment for it carrying a
\* tampered signature of the valid one's length has been rejected.
C9_Witness ==
  \E s \in Slots :
    /\ req[s].op = "verifyPayment" /\ req[s].pc = "done" /\ req[s].code = 400
    /\ config.keySecret # NoSecret
    /\ req[s].payment_id \in DOMAIN captures
    /\ captures[req[s].payment_id].order_id = req[s].order_id
    /\ req[s].signature # NoSig
    /\ Len(req[s].signature) =
         Len(Hmac(config.keySecret, SignatureString(req[s].order_id, req[s].payment_id)))
    /\ ~GenuinePaymentSignature(req[s])

\* C10: a webhook whose signature is missing or is not the HMAC of the raw
\* body under the webhook secret is answered 400, fetches no order and makes
\* no store write.
C10_WebhookRejection ==
  \A s \in Slots :
    (req[s].op = "webhook" /\ ~GenuineWebhookSignature(req[s]))
      => /\ req[s].pc = "done" /\ req[s].code = 400
         /\ req[s].fetches = 0 /\ req[s].writes = 0

\* C10 witness: with the webhook secret configured and an order at the
\* gateway, a payment.captured body signed without the secret was rejected.
C10_Witness ==
  \E s \in Slots :
    /\ req[s].op = "webhook" /\ req[s].pc = "done" /\ req[s].code = 400
    /\ config.webhookSecret # NoSecret
    /\ req[s].body.event = "payment.captured"
    /\ req[s].body.order_id \in DOMAIN orders
    /\ req[s].signature # NoSig
    /\ Len(req[s].signature) = Len(Hmac(config.webhookSecret, req[s].body))

\* C11: a webhook whose signature is the HMAC of its raw body under the
\* webhook secret is never answered with anything but 200, whatever its
\* processing ran into (body that does not parse, other event type, no
\* gateway client, failed order fetch, exception inside addCredits).
C11_ValidWebhookAnswers200 ==
  \A s \in Slots :
    (req[s].op = "webhook" /\ GenuineWebhookSignature(req[s]) /\ req[s].pc = "done")
      => req[s].code = 200

\* C11 witness: a validly signed payment.captured webhook fetched its order,
\* called addCredits, which threw (its user insert lost to the uniqueness
\* constraint), and was answered 200 with the error swallowed.
C11_Witness ==
  \E s \in Slots :
    /\ req[s].op = "webhook" /\ GenuineWebhookSignature(req[s])
    /\ req[s].pc = "done" /\ req[s].code = 200 /\ ~req[s].success
    /\ req[s].fetches = 1 /\ req[s].source = "webhook_payment"

\* a call that runs getOrCreateUser has returned to its client
LedgerCallDone(s) ==
  /\ req[s].op \in {"getOrCreateUser", "deductCredit", "addCredits"}
  /\ req[s].pc = "done"

SystemTxs(phone) ==
  {i \in TxIds :
     /\ credit_transactions[i].source = "system"
     /\ credit_transactions[i].user_id \in UserIds
     /\ users[credit_transactions[i].user_id].phone_number = phone}

\* C12: no call that runs getOrCreateUser fails with an error to its caller:
\* whichever call loses the insert race on a new phone number still returns
\* the existing user of that phone number.
C12_RaceLoserReturnsUser ==
  \A s \in Slots :
    LedgerCallDone(s)
      => /\ req[s].code = 200
         /\ req[s].user # NoRow
         /\ req[s].user.phone_number = req[s].phone

\* C13: at most one user row per phone number and at most one starter-credit
\* (source = system) transaction per phone number.
C13_OneUserPerPhone ==
  /\ \A i, j \in UserIds : users[i].phone_number = users[j].phone_number => i = j
  /\ \A phone \in Phones : Cardinality(SystemTxs(phone)) <= 1

\* C13 witness: two calls raced on a phone number both had seen as unknown;
\* one created the user and logged the starter credits, the insert of the
\* other was refused.
C13_Witness ==
  \E s, t \in Slots :
    /\ s # t /\ req[s].phone = req[t].phone
    /\ LedgerCallDone(s) /\ req[s].code = 500 /\ req[s].user = NoRow
    /\ req[t].user # NoRow /\ req[t].writes >= 2
    /\ Cardinality({id \in UserIds : users[id].phone_number = req[s].phone}) = 1
    /\ Cardinality(SystemTxs(req[s].phone)) = 1

\* C14: when a verifyPayment request with a valid signature looks its user up
\* and no user has the phone number, the request is answered 404 at once and
\* the store stays as it is: no user, no payment row, no transaction.
C14_UnknownUserRejected ==
  [][\A s \in Slots :
       ( /\ req[s].op = "verifyPayment" /\ GenuinePaymentSignature(req[s])
         /\ req[s].pc = "vp_user" /\ req'[s].pc # "vp_user"
         /\ ~PhoneTaken(req[s].phone) )
       => /\ req'[s].pc = "done" /\ req'[s].code = 404 /\ req'[s].writes = 0
          /\ users' = users /\ payments' = payments
          /\ credit_transactions' = credit_transactions]_vars

\* C14 witness: a verifyPayment with the genuine signature of a captured
\* payment and an existing package, for a phone number without a user, was
\* answered 404; the user still does not exist and no payment is recorded.
C14_Witness ==
  \E s \in Slots :
    /\ req[s].op = "verifyPayment" /\ GenuinePaymentSignature(req[s])
    /\ req[s].pc = "done" /\ req[s].code = 404 /\ req[s].writes = 0
    /\ req[s].package_id \in DOMAIN packages
    /\ req[s].user = NoRow /\ ~PhoneTaken(req[s].phone)
    /\ payments = <<>>

\* the request carries an x-bot-secret header equal to the configured secret
CarriesBotSecret(r) ==
  config.botSecret # NoSecret /\ r.header = config.botSecret

\* C15: with a bot secret configured, a credit-check or deduct request whose
\* x-bot-secret header is missing or differs from the secret is answered 401
\* and never reaches the ledger: it reads no user and makes no store write.
C15_BotAuthFailsClosed ==
  \A s \in Slots :
    (req[s].bot /\ config.botSecret # NoSecret /\ req[s].header # config.botSecret)
      => /\ req[s].pc = "done" /\ req[s].code = 401
         /\ req[s].user = NoRow /\ req[s].writes = 0

\* C15 witness: with the secret configured, a deduct request carrying a wrong
\* secret for a user who has credits was answered 401.
C15_Witness ==
  \E s \in Slots :
    /\ req[s].bot /\ req[s].op = "deductCredit"
    /\ config.botSecret # NoSecret
    /\ req[s].header \notin {NoHeader, config.botSecret}
    /\ req[s].pc = "done" /\ req[s].code = 401
    /\ PhoneTaken(req[s].phone) /\ FindUserByPhone(req[s].phone).credits >= 1

\* C16: in every configuration a bot request that does not carry an
\* x-bot-secret header equal to the configured bot secret is answered 401 and
\* does not reach its handler.
C16_BotHeaderAlwaysRequired ==
  \A s \in Slots :
    (req[s].bot /\ ~CarriesBotSecret(req[s]))
      => req[s].pc = "done" /\ req[s].code = 401

\* the transactions logged for the user
TxsOf(id) == {i \in TxIds : credit_transactions[i].user_id = id}

\* a getOrCreateUser call is between its insert of the user and its log row
CreatingUser(id) ==
  \E s \in Slots : req[s].pc = "goc_log" /\ req[s].user.id = id

\* C17: getOrCreateUser on a phone number without a user creates the user
\* with credits = 3 (the row it inserted and returns) and, once it has
\* logged, the user has exactly one system transaction, which is
\* {credit, 3, system, null}.
C17_NewUserStarterCredits ==
  /\ \A s \in Slots :
       (req[s].op = "getOrCreateUser" /\ req[s].writes > 0)
         => /\ req[s].user.credits = 3
            /\ req[s].pc = "done"
                 => req[s].writes = 2 /\ req[s].code = 200 /\ req[s].remaining = 3
  /\ \A id \in UserIds :
       LET sys == {i \in TxsOf(id) : credit_transactions[i].source = "system"}
       IN IF CreatingUser(id) THEN sys = {}
          ELSE /\ Cardinality(sys) = 1
               /\ \A i \in sys :
                    credit_transactions[i] =
                      [user_id |-> id, action |-> "credit", credits |-> 3,
                       source |-> "system", reference_id |-> NullRef]

\* C17 witness: a getOrCreateUser call on a new phone number has returned the
\* user it created, with balance 3 and its one starter transaction.
C17_Witness ==
  \E s \in Slots :
    /\ req[s].op = "getOrCreateUser" /\ req[s].pc = "done" /\ req[s].writes = 2
    /\ req[s].user # NoRow /\ users[req[s].user.id].credits = 3
    /\ users[req[s].user.id].phone_number = req[s].phone
    /\ Cardinality(TxsOf(req[s].user.id)) = 1

\* C18: a getOrCreateUser call made when the phone number already has a user
\* (as the second of two calls in sequence is) returns that user's id at
\* its first step and writes nothing.
C18_SecondCallWritesNothing ==
  [][\A s \in Slots :
       ( /\ req[s].op = "getOrCreateUser"
         /\ req[s].pc = "goc_find" /\ req'[s].pc # "goc_find"
         /\ PhoneTaken(req[s].phone) )
       => /\ req'[s].pc = "done" /\ req'[s].code = 200 /\ req'[s].writes = 0
          /\ req'[s].user # NoRow
          /\ users[req'[s].user.id].phone_number = req[s].phone
          /\ users' = users /\ credit_transactions' = credit_transactions]_vars

\* C18 witness: two getOrCreateUser calls on one phone number have returned,
\* the first having created the user, the second having written nothing, and
\* both returned the same id.
C18_Witness ==
  \E s, t \in Slots :
    /\ s # t
    /\ req[s].op = "getOrCreateUser" /\ req[s].pc = "done" /\ req[s].writes = 2
    /\ req[t].op = "getOrCreateUser" /\ req[t].pc = "done" /\ req[t].writes = 0
    /\ req[t].code = 200 /\ req[s].phone = req[t].phone
    /\ req[s].user.id = req[t].user.id
    /\ Cardinality(TxsOf(req[s].user.id)) = 1

\* C19: (a) a createOrder that succeeds for a package of price p creates a
\* gateway order whose amount is p x 100 rounded to the nearest integer, and
\* answers with it (price 100 gives 10000); (b) the addCredits of a
\* verifyPayment with a valid signature holds, after its update, the balance
\* it had read plus the package's credits, and when no other write came
\* between its read and its update that is the store's previous balance plus
\* those credits; (c) the response then carries credits_added = the package's
\* credits and remaining_credits = that balance.
C19_OrderAndVerifyRoundTrip ==
  [][\A s \in Slots :
       /\ ( /\ req[s].op = "createOrder" /\ req[s].pc = "co_gateway"
            /\ req'[s].pc = "done" /\ req'[s].code = 200 )
          => LET p == packages[req[s].package_id].price
                 amount == orders'[Len(orders')].amount
             IN /\ Len(orders') = Len(orders) + 1
                /\ amount * 1000 - 500 <= p * 100
                /\ p * 100 < amount * 1000 + 500
                /\ p = 100000 => amount = 10000
                /\ req'[s].remaining = amount
                /\ req'[s].order_id = Len(orders')
       /\ ( /\ req[s].op = "verifyPayment" /\ GenuinePaymentSignature(req[s])
            /\ req[s].pc = "add_update" /\ req'[s].pc # "add_update" )
          => LET id == req[s].user.id
                 credits == packages[req[s].package_id].credits
             IN /\ req'[s].pc = "add_log"
                /\ req'[s].user.credits = req[s].user.credits + credits
                /\ users'[id].credits = req'[s].user.credits
                /\ users[id].credits = req[s].user.credits
                     => users'[id].credits = users[id].credits + credits
       /\ ( /\ req[s].op = "verifyPayment" /\ GenuinePaymentSignature(req[s])
            /\ req[s].pc = "add_log" /\ req'[s].pc # "add_log" )
          => /\ req'[s].pc = "done" /\ req'[s].code = 200 /\ req'[s].success
             /\ req'[s].credits = packages[req[s].package_id].credits
             /\ req'[s].remaining = req[s].user.credits]_vars

\* C19 witness: createOrder for the package of price 100 returned amount
\* 10000, its payment was captured, and a verifyPayment with the genuine
\* signature for a user at balance 2 returned credits_added 50 and
\* remaining_credits 52, which is the stored balance.
C19_Witness ==
  \E s, t \in Slots :
    /\ req[s].op = "createOrder" /\ req[s].pc = "done" /\ req[s].code = 200
    /\ req[s].package_id = 1 /\ req[s].remaining = 10000
    /\ orders[req[s].order_id].amount = 10000
    /\ req[t].op = "verifyPayment" /\ GenuinePaymentSignature(req[t])
    /\ req[t].order_id = req[s].order_id /\ req[t].package_id = 1
    /\ req[t].pc = "done" /\ req[t].code = 200
    /\ req[t].credits = 50 /\ req[t].remaining = 52
    /\ users[req[t].user.id].credits = 52
    /\ Len(credit_transactions) = 3

\* C20: every balance write of addCredits leaves the stored balance exactly
\* its amount above the balance the store held when the write was applied,
\* so that no write made between its read and its write is undone.
C20_AddIsIncrement ==
  [][\A s \in Slots :
       (req[s].pc = "add_update" /\ req'[s].pc = "add_log")
         => users'[req[s].user.id].credits =
              users[req[s].user.id].credits + req[s].credits]_vars

\* C21: a deductCredit call that finds its user with a balance <= 0 returns
\* at once with success:false and remainingCredits equal to that balance,
\* and writes nothing: users and the transaction log stay as they are.
C21_InsufficientTouchesNothing ==
  [][\A s \in Slots :
       ( /\ req[s].op = "deductCredit"
         /\ req[s].pc = "goc_find" /\ req'[s].pc # "goc_find"
         /\ PhoneTaken(req[s].phone)
         /\ FindUserByPhone(req[s].phone).credits <= 0 )
       => /\ req'[s].pc = "done" /\ req'[s].code = 200 /\ ~req'[s].success
          /\ req'[s].remaining = FindUserByPhone(req[s].phone).credits
          /\ req'[s].writes = 0
          /\ users' = users /\ credit_transactions' = credit_transactions]_vars

\* C21 witness: a deductCredit call for a user at balance 0 has returned
\* success:false with remainingCredits 0 and no write.
C21_Witness ==
  \E s \in Slots :
    /\ req[s].op = "deductCredit" /\ req[s].pc = "done" /\ ~req[s].success
    /\ req[s].writes = 0 /\ req[s].remaining = 0
    /\ req[s].user # NoRow /\ req[s].user.credits = 0
    /\ users[req[s].user.id].credits = 0

\* C22: when the conditional update of a deductCredit call meets a stored
\* balance below 1 (a racing request exhausted it), the update changes no
\* balance, and the call then re-reads the balance and returns success:false
\* with remainingCredits equal to the re-read balance, having changed no
\* balance and appended no transaction.
C22_LostRaceRereads ==
  [][\A s \in Slots :
       req[s].op = "deductCredit" =>
         /\ ( /\ req[s].pc = "deduct_update" /\ req'[s].pc # "deduct_update"
              /\ users[req[s].user.id].credits < 1 )
            => /\ req'[s].pc = "deduct_refetch"
               /\ req'[s].writes = req[s].writes
               /\ users' = users /\ credit_transactions' = credit_transactions
         /\ (req[s].pc = "deduct_refetch" /\ req'[s].pc # "deduct_refetch")
            => /\ req'[s].pc = "done" /\ req'[s].code = 200 /\ ~req'[s].success
               /\ req'[s].remaining = users[req[s].user.id].credits
               /\ req'[s].writes = req[s].writes
               /\ users' = users /\ credit_transactions' = credit_transactions]_vars

\* C22 witness: a deductCredit call that had read a positive balance lost to
\* racing calls that brought the balance to 0, and returned success:false
\* with remainingCredits 0 without a write.
C22_Witness ==
  \E s \in Slots :
    /\ req[s].op = "deductCredit" /\ req[s].pc = "done" /\ req[s].code = 200
    /\ ~req[s].success /\ req[s].writes = 0
    /\ req[s].user # NoRow /\ req[s].user.credits >= 1
    /\ req[s].remaining = 0 /\ users[req[s].user.id].credits = 0
    /\ req[s].rivals >= 1

\* the step returns the deductCredit call in slot s to its caller
DeductReturns(s) ==
  req[s].op = "deductCredit" /\ req[s].pc # "done" /\ req'[s].pc = "done"

\* C23: the transaction log only grows by appending; a deductCredit call
\* appends exactly one {debit, 1, image_generation, null} row for its user,
\* in the step in which it returns success:true; a call that returns
\* success:false appends nothing in that step, and no debit row is ever
\* appended by any other step.
C23_OneDebitRowPerSuccess ==
  [][/\ Len(credit_transactions') >= Len(credit_transactions)
     /\ SubSeq(credit_transactions', 1, Len(credit_transactions)) = credit_transactions
     /\ \A s \in Slots :
          DeductReturns(s) =>
            IF req'[s].success
            THEN credit_transactions' =
                   Append(credit_transactions,
                          [user_id |-> req[s].user.id, action |-> "debit",
                           credits |-> 1, source |-> "image_generation",
                           reference_id |-> NullRef])
            ELSE credit_transactions' = credit_transactions
     /\ \A i \in 1..Len(credit_transactions') :
          (i > Len(credit_transactions) /\ credit_transactions'[i].action = "debit")
            => /\ Len(credit_transactions') = Len(credit_transactions) + 1
               /\ \E s \in Slots : DeductReturns(s) /\ req'[s].success]_vars

\* C23 witness: of two deductCredit calls for one user, one has returned
\* success:true and the other success:false, and the user's debit rows are
\* as many as the successful returns.
C23_Witness ==
  \E s, t \in Slots :
    /\ req[s].op = "deductCredit" /\ req[s].pc = "done" /\ req[s].success
    /\ req[t].op = "deductCredit" /\ req[t].pc = "done" /\ ~req[t].success
    /\ req[t].code = 200 /\ req[s].user.id = req[t].user.id
    /\ Cardinality({i \in TxsOf(req[s].user.id) :
                      credit_transactions[i].action = "debit"})
         = deducted[req[s].phone]

\* C24: no step of a createOrder request, from its arrival to its response
\* (success, package not found or gateway failure), changes the users table
\* or the transaction log, and the request makes no store write.
C24_CreateOrderLeavesLedger ==
  [][\A s \in Slots :
       (req'[s] # req[s] /\ req'[s].op = "createOrder")
         => /\ users' = users
            /\ credit_transactions' = credit_transactions
            /\ req'[s].writes = 0 /\ req'[s].user = NoRow]_vars

\* C24 witness: createOrder has succeeded for a phone number that has no
\* user; the order carries the phone number and still no user has it.
C24_Witness ==
  \E s \in Slots :
    /\ req[s].op = "createOrder" /\ req[s].pc = "done" /\ req[s].code = 200
    /\ req[s].order_id \in DOMAIN orders
    /\ orders[req[s].order_id].notes.phone_number = req[s].phone
    /\ ~PhoneTaken(req[s].phone)
    /\ req[s].writes = 0

\* a field of the verifyPayment request is absent
FieldAbsent(r) ==
  \/ r.order_id = 0 \/ r.payment_id = 0 \/ r.signature = NoSig
  \/ r.phone = NoPhone \/ r.package_id = 0

C26_PaymentLogFailureStillCredits ==
  [][\A s \in Slots :
       (req[s].op = "verifyPayment" /\ req'[s].pc # req[s].pc) =>
         LET credits == packages[req[s].package_id].credits
         IN /\ (req[s].pc = "vp_payment" /\ payments' = payments)
               => /\ req'[s].pc = "goc_find" /\ req'[s].phone = req[s].phone
                  /\ req'[s].credits = credits /\ req'[s].source = "payment"
                  /\ req'[s].ref = req[s].payment_id
            /\ req[s].pc = "goc_find" => req'[s].pc = "add_update"
            /\ req[s].pc = "add_update"
               => /\ req'[s].pc = "add_log"
                  /\ users'[req[s].user.id].credits = req[s].user.credits + credits
            /\ req[s].pc = "add_log"
               => /\ req'[s].pc = "done" /\ req'[s].code = 200 /\ req'[s].success
                  /\ credit_transactions' =
                       Append(credit_transactions,
                              [user_id |-> req[s].user.id, action |-> "credit",
                               credits |-> credits, source |-> "payment",
                               reference_id |-> req[s].payment_id])]_vars

\* C26 witness: a verifyPayment request was answered 200 and its user holds
\* the 'payment' credit of the package, while the payments table has no row:
\* the insert had failed.
C26_Witness ==
  \E s \in Slots :
    /\ req[s].op = "verifyPayment" /\ req[s].pc = "done" /\ req[s].code = 200
    /\ payments = <<>> /\ req[s].writes = 2
    /\ \E i \in CreditTxs("payment", req[s].payment_id) :
         /\ credit_transactions[i].user_id = req[s].user.id
         /\ credit_transactions[i].credits = packages[req[s].package_id].credits
    /\ users[req[s].user.id].credits >= packages[req[s].package_id].credits

\* the 'payment' credits logged for captured payments
PaymentCredits ==
  {i \in TxIds : /\ credit_transactions[i].source = "payment"
                 /\ credit_transactions[i].reference_id \in DOMAIN captures}

\* the notes of the order the logged payment credit i was paid against
OrderNotesOf(i) ==
  orders[captures[credit_transactions[i].reference_id].order_id].notes

\* C27: the credits verifyPayment grants for a payment are those of the
\* package its order was created and priced for.
C27_GrantMatchesOrderPackage ==
  \A i \in PaymentCredits :
    credit_transactions[i].credits =
      packages[ParseInt(OrderNotesOf(i).package_id)].credits

\* C28: the credits of a verified payment go to the user whose phone number
\* was given to createOrder for the payment's order.
C28_GrantGoesToOrderPhone ==
  \A i \in PaymentCredits :
    users[credit_transactions[i].user_id].phone_number =
      OrderNotesOf(i).phone_number

C30_HistoryNewestFirstLimited ==
  [][\A s \in Slots :
       (req'[s].op = "getCreditHistory" /\ req'[s] # req[s]) =>
         /\ users' = users /\ credit_transactions' = credit_transactions
         /\ payments' = payments /\ req'[s].writes = 0
         /\ req'[s].query = <<>> => req'[s].limit = 50
         /\ req[s].pc = "hist_query" =>
              LET h == req'[s].transactions
                  mine == {i \in TxIds :
                             credit_transactions[i].user_id = req[s].user_id}
                  returned == {h[k].created_at : k \in 1..Len(h)}
              IN /\ req'[s].pc = "done" /\ req'[s].code = 200
                 /\ req'[s].remaining = Len(h)
                 /\ \A k \in 1..Len(h) :
                      /\ h[k].user_id = req[s].user_id
                      /\ h[k].created_at \in mine
                      /\ h[k] = HistoryRow(h[k].created_at)
                 /\ \A k \in 1..(Len(h) - 1) :
                      h[k].created_at > h[k + 1].created_at
                 /\ Len(h) <= req[s].limit
                 /\ Len(h) < req[s].limit => returned = mine
                 /\ \A i \in mine \ returned : \A j \in returned : i < j]_vars

\* C30 witness: with rows of two users in the log, a history request with
\* limit 1 for a user with at least two rows returned exactly the newest.
C30_Witness ==
  \E s \in Slots :
    /\ req[s].op = "getCreditHistory" /\ req[s].pc = "done" /\ req[s].code = 200
    /\ req[s].limit = 1 /\ Len(req[s].transactions) = 1
    /\ Cardinality(TxsOf(req[s].user_id)) >= 2
    /\ req[s].transactions[1].created_at = Len(credit_transactions)
    /\ \E i \in TxIds :
         /\ credit_transactions[i].user_id # req[s].user_id
         /\ \E j \in TxsOf(req[s].user_id) : j < i

====
